---- MODULE Spec2Model ----
(***************************************************************************)
(* Gazetteer-based place recognition of oxossi.extractors.places:          *)
(* load_place_captaincy_data reads a "Place,Captaincy" file line by line,  *)
(* search_colonial_places scans a text with the pattern                    *)
(*     \b(place_1|...|place_n)\b     (places by descending length,         *)
(*                                    re.IGNORECASE)                       *)
(* counts the canonical places, adds the counts to the captaincies and     *)
(* picks the top captaincy.                                                *)
(*                                                                         *)
(* Strings are sequences of one-character strings, so that strip, split,   *)
(* lower, the word boundary \b and the lexicographic order of sorted()     *)
(* are computed character by character as Python computes them.            *)
(***************************************************************************)
EXTENDS Integers, Sequences, FiniteSets, TLC

VARIABLES
    file,                 \* the gazetteer file: whether it exists, and its lines
    line_num,             \* number of lines of the file read so far
    captaincy_data,       \* dict captaincy -> list of places, in insertion order
    assigned_places,      \* set of place strings already bound by the loader
    pc,                   \* position of the program
    text,                 \* argument of the search in progress
    pos,                  \* offset in text where finditer resumes
    found_places_counts,  \* defaultdict(int): canonical place -> occurrences
    result,               \* value returned by search_colonial_places
    loader,               \* the loader whose call is in progress, "none" once it returned
    caught,               \* the exception the call in progress has caught
    pc2,                  \* a second caller that scans against the same index:
    text2,                \*   its position and the locals of its call
    pos2,
    found_places_counts2,
    result2,
    caught2,
    calls2,               \* number of scans the second caller has started
    main_pc,              \* position of main() of oxossi.extractors.places
    input_file,           \* the file at args.input_file
    file_text,            \* the text main() has read from it
    emitted,              \* the JSON documents format_and_output_json has printed
    exit_code,            \* how the process of main() has ended
    names_call,           \* the arguments of a call of extract_potential_names
    names_result,         \* what the call has returned
    themes_call,          \* the arguments of a call of analyze_text_themes
    themes_result         \* what the call has returned

\* the second caller and its call
scan2vars == <<pc2, text2, pos2, found_places_counts2, result2, caught2, calls2>>

\* the command main()
mainvars == <<main_pc, input_file, file_text, emitted, exit_code>>

\* the calls of the two other extractors
namesvars == <<names_call, names_result>>

themesvars == <<themes_call, themes_result>>

\* what the engine of the gazetteer leaves alone
auxvars == <<mainvars, namesvars, themesvars>>

vars == <<file, line_num, captaincy_data, assigned_places, pc, text, pos,
          found_places_counts, result, loader, caught, scan2vars, auxvars>>

----------------------------------------------------------------------------
(* Bounds of the model *)

MaxLines == 2      \* lines of a gazetteer file

MaxTextLen == 5    \* characters of a scanned text

----------------------------------------------------------------------------
(* Characters *)

\* Python's str.isalnum() or '_' : what the pattern's \b calls a word character
IsWordChar(c) == c \in {"a", "A", "b", "B", "P", "Q", "p", "q"}

\* str.isspace(): the characters str.strip() removes
IsSpace(c) == c = " "

\* str.lower() on one character
LowerChar(c) ==
    CASE c = "A" -> "a"
      [] c = "B" -> "b"
      [] c = "P" -> "p"
      [] c = "Q" -> "q"
      [] OTHER -> c

\* ord(c): the order sorted() compares strings by
CodePoint(c) ==
    CASE c = " " -> 32
      [] c = "#" -> 35
      [] c = "," -> 44
      [] c = "." -> 46
      [] c = "A" -> 65
      [] c = "B" -> 66
      [] c = "P" -> 80
      [] c = "Q" -> 81
      [] c = "a" -> 97
      [] c = "b" -> 98
      [] c = "p" -> 112
      [] c = "q" -> 113
      [] OTHER -> 0

\* str.lower()
Lower(s) == [i \in 1..Len(s) |-> LowerChar(s[i])]

\* str.upper() on one character
UpperChar(c) ==
    CASE c = "a" -> "A"
      [] c = "b" -> "B"
      [] c = "p" -> "P"
      [] c = "q" -> "Q"
      [] OTHER -> c

\* str.capitalize()
Capitalize(s) ==
    IF s = <<>> THEN <<>> ELSE <<UpperChar(Head(s))>> \o Lower(Tail(s))

\* str.strip(chars)
RECURSIVE StripChars(_, _)
StripChars(s, chars) ==
    IF s # <<>> /\ Head(s) \in chars THEN StripChars(Tail(s), chars)
    ELSE IF s # <<>> /\ s[Len(s)] \in chars
         THEN StripChars(SubSeq(s, 1, Len(s) - 1), chars)
    ELSE s

\* s1 < s2 for Python strings
RECURSIVE StrLess(_, _)
StrLess(s1, s2) ==
    IF s2 = <<>> THEN FALSE
    ELSE IF s1 = <<>> THEN TRUE
    ELSE IF CodePoint(Head(s1)) # CodePoint(Head(s2))
         THEN CodePoint(Head(s1)) < CodePoint(Head(s2))
    ELSE StrLess(Tail(s1), Tail(s2))

RECURSIVE LStrip(_)
LStrip(s) == IF s # <<>> /\ IsSpace(Head(s)) THEN LStrip(Tail(s)) ELSE s

RECURSIVE RStrip(_)
RStrip(s) ==
    IF s # <<>> /\ IsSpace(s[Len(s)]) THEN RStrip(SubSeq(s, 1, Len(s) - 1)) ELSE s

\* str.strip()
Strip(s) == RStrip(LStrip(s))

\* the characters of s before its first whitespace
RECURSIVE FirstWord(_)
FirstWord(s) ==
    IF s = <<>> \/ IsSpace(Head(s)) THEN <<>>
    ELSE <<Head(s)>> \o FirstWord(Tail(s))

\* str.split(): the words between runs of whitespace
RECURSIVE SplitWhitespace(_)
SplitWhitespace(s) ==
    IF LStrip(s) = <<>> THEN <<>>
    ELSE <<FirstWord(LStrip(s))>>
         \o SplitWhitespace(SubSeq(LStrip(s), Len(FirstWord(LStrip(s))) + 1,
                                   Len(LStrip(s))))

\* " ".join(words)
RECURSIVE JoinWords(_)
JoinWords(words) ==
    IF words = <<>> THEN <<>>
    ELSE IF Len(words) = 1 THEN words[1]
    ELSE words[1] \o <<" ">> \o JoinWords(Tail(words))

\* index of the first comma of s, 0 when there is none
FirstComma(s) ==
    IF \E i \in 1..Len(s) : s[i] = ","
    THEN CHOOSE i \in 1..Len(s) : s[i] = "," /\ \A j \in 1..(i - 1) : s[j] # ","
    ELSE 0

\* str.split(','): SplitFirstComma without the limit of one split
RECURSIVE SplitFirstComma_everyComma(_)
SplitFirstComma_everyComma(s) ==
    IF FirstComma(s) = 0 THEN <<s>>
    ELSE <<SubSeq(s, 1, FirstComma(s) - 1)>>
         \o SplitFirstComma_everyComma(SubSeq(s, FirstComma(s) + 1, Len(s)))

\* str.split(',', 1)
SplitFirstComma(s) ==
    IF FirstComma(s) = 0 THEN <<s>>
    ELSE <<SubSeq(s, 1, FirstComma(s) - 1), SubSeq(s, FirstComma(s) + 1, Len(s))>>

----------------------------------------------------------------------------
(* The gazetteer loader *)

\* a path at which os.path.exists is False
Missing == [exists |-> FALSE, lines |-> <<>>]

\* a file that exists, as the list of its lines
FileOf(lines) == [exists |-> TRUE, lines |-> lines]

\* IsIgnored without the test for a comment
IsIgnored_blankOnly(line) == line = <<>>

\* if not line or line.startswith('#'), on the stripped line
IsIgnored(line) == line = <<>> \/ Head(line) = "#"

\* ParseLine without the test "if place and captaincy"
ParseLine_unchecked(raw) ==
    LET line  == Strip(raw)
        parts == SplitFirstComma(line)
    IN  IF IsIgnored(line) THEN [kind |-> "ignored"]
        ELSE IF Len(parts) # 2 THEN [kind |-> "malformed"]
        ELSE [kind |-> "record", place |-> Strip(parts[1]),
              captaincy |-> Strip(parts[2])]

\* what the body of the loader's loop makes of one line
ParseLine(raw) ==
    LET line  == Strip(raw)
        parts == SplitFirstComma(line)
    IN  IF IsIgnored(line) THEN [kind |-> "ignored"]
        ELSE IF Len(parts) # 2 THEN [kind |-> "malformed"]
        ELSE IF Strip(parts[1]) # <<>> /\ Strip(parts[2]) # <<>>
             THEN [kind |-> "record", place |-> Strip(parts[1]),
                   captaincy |-> Strip(parts[2])]
        ELSE [kind |-> "empty_field"]

\* the keys of the dict
Captaincies(data) == {data[i].cap : i \in 1..Len(data)}

\* captaincy_data[captaincy].append(place) on a defaultdict(list)
AppendPlace(data, captaincy, place) ==
    IF captaincy \in Captaincies(data)
    THEN [i \in 1..Len(data) |->
            IF data[i].cap = captaincy
            THEN [cap |-> captaincy, places |-> Append(data[i].places, place)]
            ELSE data[i]]
    ELSE Append(data, [cap |-> captaincy, places |-> <<place>>])

\* IsNewPlace without the look-up in assigned_places
IsNewPlace_unchecked(place, assigned) == TRUE

\* the guard of the append
IsNewPlace(place, assigned) == place \notin assigned

\* the body of the loader's loop as a function of the two collections it
\* updates
LoadStep(st, raw) ==
    LET r == ParseLine(raw)
    IN  IF r.kind = "record" /\ IsNewPlace(r.place, st.assigned)
        THEN [data |-> AppendPlace(st.data, r.captaincy, r.place),
              assigned |-> st.assigned \cup {r.place}]
        ELSE st

RECURSIVE LoadLines(_, _)
LoadLines(lines, st) ==
    IF lines = <<>> THEN st
    ELSE LoadLines(Tail(lines), LoadStep(st, Head(lines)))

\* the index a loader builds from a file it reads to its end
LoadAll(lines) == LoadLines(lines, [data |-> <<>>, assigned |-> {}]).data

----------------------------------------------------------------------------
(* The lookup tables of search_colonial_places *)

\* captaincy_data.items() with each list unrolled: the order the two for
\* loops visit the (captaincy, place) pairs in
RECURSIVE ItemPairs(_)
ItemPairs(data) ==
    IF data = <<>> THEN <<>>
    ELSE [i \in 1..Len(Head(data).places) |-> <<Head(data).cap, Head(data).places[i]>>]
         \o ItemPairs(Tail(data))

EmptyTables ==
    [place_to_captaincy |-> <<>>, all_places_canonical |-> {},
     lower_to_canonical_place |-> <<>>]

\* lower_to_canonical_place[place.lower()] = place
RecordLower(table, place) == (Lower(place) :> place) @@ table

\* the body of the inner for loop
AddToTables(t, captaincy, place) ==
    IF place \in DOMAIN t.place_to_captaincy THEN t
    ELSE [place_to_captaincy |-> (place :> captaincy) @@ t.place_to_captaincy,
          all_places_canonical |-> t.all_places_canonical \cup {place},
          lower_to_canonical_place |-> RecordLower(t.lower_to_canonical_place, place)]

RECURSIVE FoldTables(_, _)
FoldTables(pairs, t) ==
    IF pairs = <<>> THEN t
    ELSE FoldTables(Tail(pairs), AddToTables(t, Head(pairs)[1], Head(pairs)[2]))

BuildTables(data) == FoldTables(ItemPairs(data), EmptyTables)

\* SortedPlaces without reverse=True: the shortest place first
RECURSIVE SortedPlaces_ascending(_)
SortedPlaces_ascending(S) ==
    IF S = {} THEN <<>>
    ELSE LET first == CHOOSE p \in S : \A q \in S : Len(p) <= Len(q)
         IN  <<first>> \o SortedPlaces_ascending(S \ {first})

\* sorted(list(all_places_canonical), key=len, reverse=True).  Places of equal
\* length come in the set's iteration order, which Python leaves unspecified;
\* CHOOSE fixes one.  Two places of equal length that match at the same offset
\* differ only in case, and the count goes to the entry found through the
\* text actually matched, so the order among them does not reach the result.
RECURSIVE SortedPlaces(_)
SortedPlaces(S) ==
    IF S = {} THEN <<>>
    ELSE LET first == CHOOSE p \in S : \A q \in S : Len(q) <= Len(p)
         IN  <<first>> \o SortedPlaces(S \ {first})

----------------------------------------------------------------------------
(* The pattern \b(...)\b under re.IGNORECASE *)

IsWordAt(t, i) == i \in 1..Len(t) /\ IsWordChar(t[i])

\* \b at offset k: between the k-th and the (k+1)-th character of t
WordBoundary(t, k) == IsWordAt(t, k) # IsWordAt(t, k + 1)

\* two characters the pattern takes for equal when it ignores case
SameIgnoringCase(c, d) == LowerChar(c) = LowerChar(d)

\* the escaped literal of place matches t at offset k
LiteralAt(t, k, place) ==
    /\ k + Len(place) <= Len(t)
    /\ \A i \in 1..Len(place) : SameIgnoringCase(t[k + i], place[i])

\* one alternative of the group, with the closing \b
AlternativeAt(t, k, place) ==
    LiteralAt(t, k, place) /\ WordBoundary(t, k + Len(place))

\* length of the match of the whole pattern at offset k, 0 when it fails there:
\* the alternatives are tried in the order of sorted_places
MatchLenAt(t, k, sorted_places) ==
    IF ~WordBoundary(t, k) THEN 0
    ELSE IF \E i \in 1..Len(sorted_places) : AlternativeAt(t, k, sorted_places[i])
    THEN Len(sorted_places[CHOOSE i \in 1..Len(sorted_places) :
                 /\ AlternativeAt(t, k, sorted_places[i])
                 /\ \A j \in 1..(i - 1) : ~AlternativeAt(t, k, sorted_places[j])])
    ELSE 0

\* offset of the next match finditer yields from offset from, -1 when none is left
NextMatchStart(t, from, sorted_places) ==
    IF \E k \in from..(Len(t) - 1) : MatchLenAt(t, k, sorted_places) > 0
    THEN CHOOSE k \in from..(Len(t) - 1) :
            /\ MatchLenAt(t, k, sorted_places) > 0
            /\ \A j \in from..(k - 1) : MatchLenAt(t, j, sorted_places) = 0
    ELSE -1

\* ResumeOffset of a search for overlapping matches
ResumeOffset_overlapping(start, end) == start + 1

\* where finditer resumes after the match from start to end: matches do
\* not overlap
ResumeOffset(start, end) == end

\* CanonicalPlace without .lower(): the table is asked for the text as typed
CanonicalPlace_asTyped(table, matched_text) ==
    IF matched_text \in DOMAIN table THEN table[matched_text] ELSE <<>>

\* lower_to_canonical_place.get(matched_text.lower()); <<>> stands for None
CanonicalPlace(table, matched_text) ==
    IF Lower(matched_text) \in DOMAIN table THEN table[Lower(matched_text)] ELSE <<>>

\* found_places_counts[canonical_place] += 1 on a defaultdict(int)
Increment(counts, place) ==
    IF place \in DOMAIN counts
    THEN [counts EXCEPT ![place] = @ + 1]
    ELSE (place :> 1) @@ counts

----------------------------------------------------------------------------
(* Scores, top captaincy and the returned dict *)

NoTop == [kind |-> "none", names |-> <<>>]

\* no call of search_colonial_places has returned
NoResult ==
    [returned |-> FALSE, found_places_details |-> <<>>,
     top_captaincy |-> NoTop, all_captaincy_scores |-> <<>>]

\* top_captaincy is None, a str (kind "scalar", the name in names[1]) or a list
MakeResult(details, top, scores) ==
    [returned |-> TRUE, found_places_details |-> details,
     top_captaincy |-> top, all_captaincy_scores |-> scores]

\* results_template with top_captaincy initialised to a list
ResultsTemplate_topList == MakeResult(<<>>, [kind |-> "list", names |-> <<>>], <<>>)

\* results_template as the function builds it
ResultsTemplate == MakeResult(<<>>, NoTop, <<>>)

\* {cap: 0 for cap in captaincy_data}
ZeroScores(data) == [c \in Captaincies(data) |-> 0]

\* ZeroResult without the assignment to results_template["all_captaincy_scores"]
ZeroResult_unassigned(data) == ResultsTemplate

\* results_template with all_captaincy_scores = captaincy_scores (still zero)
ZeroResult(data) == MakeResult(<<>>, NoTop, ZeroScores(data))

\* the early return for an empty text
EmptyTextResult(data) == ResultsTemplate

\* AddScore counting a found place once whatever its count
AddScore_once(scores, captaincy, count) ==
    IF captaincy = <<>> THEN scores
    ELSE [scores EXCEPT ![captaincy] = @ + 1]

\* captaincy_scores[captaincy] += count, for one item of found_places_counts
AddScore(scores, captaincy, count) ==
    IF captaincy = <<>> THEN scores
    ELSE [scores EXCEPT ![captaincy] = @ + count]

\* AddCounts leaving the loop after the first item
AddCounts_firstItem(scores, counts, todo, place_to_captaincy) ==
    IF todo = {} THEN scores
    ELSE LET place == CHOOSE p \in todo : TRUE
         IN  AddScore(scores, place_to_captaincy[place], counts[place])

\* the loop over found_places_counts.items()
RECURSIVE AddCounts(_, _, _, _)
AddCounts(scores, counts, todo, place_to_captaincy) ==
    IF todo = {} THEN scores
    ELSE LET place == CHOOSE p \in todo : TRUE
             captaincy == IF place \in DOMAIN place_to_captaincy
                          THEN place_to_captaincy[place] ELSE <<>>
         IN  AddCounts(AddScore(scores, captaincy, counts[place]), counts,
                       todo \ {place}, place_to_captaincy)

\* the keys of captaincy_scores in the dict's order
CapOrder(data) == [i \in 1..Len(data) |-> data[i].cap]

\* max(positive_scores.values())
MaxScore(scores) ==
    CHOOSE m \in {scores[c] : c \in DOMAIN scores} :
        \A c \in DOMAIN scores : scores[c] <= m

\* insert s into the sorted sequence sq
RECURSIVE InsertSorted(_, _)
InsertSorted(sq, s) ==
    IF sq = <<>> THEN <<s>>
    ELSE IF StrLess(s, Head(sq)) THEN <<s>> \o sq
    ELSE <<Head(sq)>> \o InsertSorted(Tail(sq), s)

\* sorted(names) for a list of strings
RECURSIVE SortedNames(_)
SortedNames(names) ==
    IF names = <<>> THEN <<>>
    ELSE InsertSorted(SortedNames(Tail(names)), Head(names))

\* TiedTop without sorted(): the tied names in the dict's order
TiedTop_unsorted(tied) == tied

\* the value of top_captaincy for a tie
TiedTop(tied) == SortedNames(tied)

\* TopCaptaincy with the positive scores taken as those above 1
TopCaptaincy_aboveOne(data, scores) ==
    LET positive == {c \in DOMAIN scores : scores[c] > 1}
    IN  IF positive = {} THEN NoTop
        ELSE LET max_score == MaxScore([c \in positive |-> scores[c]])
                 IsTop(c) == c \in positive /\ scores[c] = max_score
                 tied == SelectSeq(CapOrder(data), IsTop)
             IN  IF Len(tied) = 1 THEN [kind |-> "scalar", names |-> tied]
                 ELSE [kind |-> "list", names |-> TiedTop(tied)]

\* lines 157-174: the selection of top_captaincy
TopCaptaincy(data, scores) ==
    LET positive == {c \in DOMAIN scores : scores[c] > 0}
    IN  IF positive = {} THEN NoTop
        ELSE LET max_score == MaxScore([c \in positive |-> scores[c]])
                 IsTop(c) == c \in positive /\ scores[c] = max_score
                 tied == SelectSeq(CapOrder(data), IsTop)
             IN  IF Len(tied) = 1 THEN [kind |-> "scalar", names |-> tied]
                 ELSE [kind |-> "list", names |-> TiedTop(tied)]

\* SortedItems with reverse=True
RECURSIVE SortedItems_descending(_)
SortedItems_descending(counts) ==
    IF DOMAIN counts = {} THEN <<>>
    ELSE LET greatest == CHOOSE p \in DOMAIN counts :
                            \A q \in DOMAIN counts : q = p \/ StrLess(q, p)
         IN  <<(<<greatest, counts[greatest]>>)>> \o
             SortedItems_descending([q \in DOMAIN counts \ {greatest} |-> counts[q]])

\* sorted(list(found_places_counts.items())): the places are distinct, so the
\* tuples are ordered by place
RECURSIVE SortedItems(_)
SortedItems(counts) ==
    IF DOMAIN counts = {} THEN <<>>
    ELSE LET least == CHOOSE p \in DOMAIN counts :
                         \A q \in DOMAIN counts : q = p \/ StrLess(p, q)
         IN  <<(<<least, counts[least]>>)>> \o
             SortedItems([q \in DOMAIN counts \ {least} |-> counts[q]])

\* lines 146-184: what the function returns once the scan is over
FinalResult(data, counts) ==
    IF DOMAIN counts = {} THEN ZeroResult(data)
    ELSE LET scores == AddCounts(ZeroScores(data), counts, DOMAIN counts,
                                 BuildTables(data).place_to_captaincy)
         IN  MakeResult(SortedItems(counts), TopCaptaincy(data, scores), scores)

\* FailResult reporting what was counted before the exception
FailResult_partial(data, counts) == FinalResult(data, counts)

\* lines 137-144: what the function returns when re.compile or the matcher
\* raises; counts holds what the loop had counted until then
FailResult(data, counts) == ZeroResult(data)

\* NewCounts of a function whose dict outlives the call
NewCounts_kept(leftover) == leftover

\* found_places_counts = defaultdict(int), line 95: a new dict at every call,
\* whatever an earlier call left behind
NewCounts(leftover) == <<>>

----------------------------------------------------------------------------
(* The two loaders: load_place_captaincy_data of oxossi.extractors.places  *)
(* ("module") and load_captaincy_data of ox_extract_places ("script").     *)
(* Their loops over the lines are the same; they differ in what they do    *)
(* when the file is missing and when reading it raises.                    *)

Loaders == {"module", "script"}

\* MissingOutcome of a loader that answers a missing file with {}
MissingOutcome_emptyIndex(ld) == "loaded"

\* where a loader ends when os.path.exists is False: "load_failed" is the
\* return of None, "load_raised" the FileNotFoundError
MissingOutcome(ld) == IF ld = "module" THEN "load_failed" ELSE "load_raised"

\* where a loader ends when it catches IOError: with None, or with the
\* return of {} ("loaded", with an empty dict)
IOErrorOutcome(ld) == IF ld = "module" THEN "load_failed" ELSE "loaded"

----------------------------------------------------------------------------
(* Inputs *)

\* the lines a gazetteer file is made of
LineSet ==
    { <<"a", ",", "P">>,                          \* a,P
      <<"A", ",", "Q">>,                          \* A,Q
      <<" ", "a", " ", ",", " ", "Q", " ">>,      \* " a , Q "
      <<"a", ".", "b", ",", "Q">>,                \* a.b,Q
      <<"b", ",", "P">>,                          \* b,P
      <<"a", ".", ",", "P">>,                     \* a.,P
      <<"#", "a", ",", "P">>,                     \* #a,P
      <<" ">>,                                    \* blank
      <<"a">>,                                    \* no comma
      <<",", "P">>,                               \* no place
      <<"b", ",">>,                               \* no captaincy
      <<"b", ",", " ", "P", ",", "Q">> }          \* "b, P,Q": two commas

Files == UNION {[1..n -> LineSet] : n \in 0..MaxLines}

\* the characters of a scanned text
TextAlphabet == {"a", "A", "b", "."}

Texts == UNION {[1..n -> TextAlphabet] : n \in 0..MaxTextLen}

----------------------------------------------------------------------------
(* The program *)

\* the gazetteer engine before the loader is called
InitEngine ==
    /\ file \in {FileOf(lines) : lines \in Files} \cup {Missing}
    /\ line_num = 0
    /\ captaincy_data = <<>>
    /\ assigned_places = {}
    /\ pc = "loading"
    /\ text = <<>>
    /\ pos = 0
    /\ found_places_counts = <<>>
    /\ result = NoResult
    /\ loader \in Loaders
    /\ caught = "none"
    /\ pc2 = "idle"
    /\ text2 = <<>>
    /\ pos2 = 0
    /\ found_places_counts2 = <<>>
    /\ result2 = NoResult
    /\ caught2 = "none"
    /\ calls2 = 0

\* no text has been read from the input file
NoText == [read |-> FALSE, text |-> <<>>]

\* main() is not running
MainOff ==
    /\ main_pc = "off"
    /\ input_file = [exists |-> FALSE, ext |-> "txt", readable |-> FALSE, content |-> <<>>]
    /\ file_text = NoText
    /\ emitted = <<>>
    /\ exit_code = "running"

\* the gazetteer engine is not used
EngineOff ==
    /\ file = Missing
    /\ line_num = 0
    /\ captaincy_data = <<>>
    /\ assigned_places = {}
    /\ pc = "off"
    /\ text = <<>>
    /\ pos = 0
    /\ found_places_counts = <<>>
    /\ result = NoResult
    /\ loader = "none"
    /\ caught = "none"
    /\ pc2 = "idle"
    /\ text2 = <<>>
    /\ pos2 = 0
    /\ found_places_counts2 = <<>>
    /\ result2 = NoResult
    /\ caught2 = "none"
    /\ calls2 = 0

\* the value of a variable that holds nothing yet
Nothing == [returned |-> FALSE, value |-> <<>>]

\* no call of extract_potential_names or analyze_text_themes is made
ExtractorsOff ==
    /\ names_call = Nothing
    /\ names_result = Nothing
    /\ themes_call = Nothing
    /\ themes_result = Nothing

Init ==
    /\ InitEngine
    /\ MainOff
    /\ ExtractorsOff

\* the file does not exist: load_place_captaincy_data returns None (lines
\* 20-22), load_captaincy_data raises FileNotFoundError
LoadMissing ==
    /\ pc = "loading"
    /\ ~file.exists
    /\ pc' = MissingOutcome(loader)
    /\ UNCHANGED <<file, line_num, captaincy_data, assigned_places, text, pos,
                   found_places_counts, result, loader, caught, scan2vars,
                   auxvars>>

\* one iteration of the loop over the lines, lines 35-60
LoadLine ==
    /\ pc = "loading"
    /\ file.exists
    /\ line_num < Len(file.lines)
    /\ line_num' = line_num + 1
    /\ LET rec == ParseLine(file.lines[line_num + 1])
       IN  IF rec.kind = "record" /\ IsNewPlace(rec.place, assigned_places)
           THEN /\ captaincy_data' = AppendPlace(captaincy_data, rec.captaincy, rec.place)
                /\ assigned_places' = assigned_places \cup {rec.place}
           ELSE UNCHANGED <<captaincy_data, assigned_places>>
    /\ UNCHANGED <<file, pc, text, pos, found_places_counts, result, loader,
                   caught, scan2vars, auxvars>>

\* the loop is over, lines 62-77: the file is closed and the dict returned
LoadFinish ==
    /\ pc = "loading"
    /\ file.exists
    /\ line_num = Len(file.lines)
    /\ pc' = "loaded"
    /\ file' = FileOf(<<>>)
    /\ line_num' = 0
    /\ assigned_places' = {}
    /\ loader' = "none"
    /\ UNCHANGED <<captaincy_data, text, pos, found_places_counts, result, caught,
                   scan2vars, auxvars>>

\* open() or a read raises IOError: load_place_captaincy_data returns None
\* (lines 65-67), load_captaincy_data returns {}
LoadIOError ==
    /\ pc = "loading"
    /\ file.exists
    /\ caught' = "IOError"
    /\ pc' = IOErrorOutcome(loader)
    /\ file' = FileOf(<<>>)
    /\ line_num' = 0
    /\ captaincy_data' = <<>>
    /\ assigned_places' = {}
    /\ loader' = "none"
    /\ UNCHANGED <<text, pos, found_places_counts, result, scan2vars, auxvars>>

\* search_colonial_places(t, captaincy_data) up to the try block, lines
\* 80-118, for a text t of TextSet
SearchBeginFrom(TextSet) ==
    /\ pc = "loaded"
    /\ \E t \in TextSet :
        /\ text' = t
        /\ IF t = <<>>
           THEN pc' = "done" /\ result' = EmptyTextResult(captaincy_data)
           ELSE IF captaincy_data = <<>>
           THEN pc' = "done" /\ result' = ResultsTemplate
           ELSE IF BuildTables(captaincy_data).all_places_canonical = {}
           THEN pc' = "done" /\ result' = ZeroResult(captaincy_data)
           ELSE pc' = "scanning" /\ result' = NoResult
    /\ pos' = 0
    /\ found_places_counts' = NewCounts(found_places_counts)
    /\ caught' = "none"
    /\ UNCHANGED <<file, line_num, captaincy_data, assigned_places, loader,
                   scan2vars, auxvars>>

SearchBegin == SearchBeginFrom(Texts)

\* the pattern of the search in progress
sorted_places == SortedPlaces(BuildTables(captaincy_data).all_places_canonical)

\* where the next match of the search in progress starts, -1 when none is left
match_start == NextMatchStart(text, pos, sorted_places)

match_end == match_start + MatchLenAt(text, match_start, sorted_places)

\* match.group(1)
matched_text == SubSeq(text, match_start + 1, match_end)

\* one iteration of the loop over finditer, lines 125-133
ScanMatch ==
    /\ pc = "scanning"
    /\ match_start >= 0
    /\ LET canonical_place ==
               CanonicalPlace(BuildTables(captaincy_data).lower_to_canonical_place,
                              matched_text)
       IN  found_places_counts' =
               IF canonical_place # <<>>
               THEN Increment(found_places_counts, canonical_place)
               ELSE found_places_counts
    /\ pos' = ResumeOffset(match_start, match_end)
    /\ UNCHANGED <<file, line_num, captaincy_data, assigned_places, pc, text,
                   result, loader, caught, scan2vars, auxvars>>

\* finditer is exhausted: lines 146-184
ScanEnd ==
    /\ pc = "scanning"
    /\ match_start < 0
    /\ pc' = "done"
    /\ result' = FinalResult(captaincy_data, found_places_counts)
    /\ UNCHANGED <<file, line_num, captaincy_data, assigned_places, text, pos,
                   found_places_counts, loader, caught, scan2vars, auxvars>>

\* re.compile or the matcher raises, lines 137-144
ScanFail ==
    /\ pc = "scanning"
    /\ pc' = "done"
    /\ result' = FailResult(captaincy_data, found_places_counts)
    /\ caught' = "re.error"
    /\ UNCHANGED <<file, line_num, captaincy_data, assigned_places, text, pos,
                   found_places_counts, loader, scan2vars, auxvars>>

\* the caller has the result; the locals of the call are gone
Return ==
    /\ pc = "done"
    /\ pc' = "loaded"
    /\ text' = <<>>
    /\ pos' = 0
    /\ found_places_counts' = <<>>
    /\ result' = NoResult
    /\ caught' = "none"
    /\ UNCHANGED <<file, line_num, captaincy_data, assigned_places, loader,
                   scan2vars, auxvars>>

Next ==
    \/ LoadMissing
    \/ LoadLine
    \/ LoadFinish
    \/ LoadIOError
    \/ SearchBegin
    \/ ScanMatch
    \/ ScanEnd
    \/ ScanFail
    \/ Return

Spec == Init /\ [][Next]_vars

----------------------------------------------------------------------------
(* Two callers of search_colonial_places against one index.  The function  *)
(* keeps everything it computes in locals of the call, so a second caller  *)
(* has its own text, offset, found_places_counts and result; the index     *)
(* captaincy_data is the one object the calls have in common.              *)

MaxCalls == 2      \* scans the second caller starts

\* the texts the two callers scan
ConcTexts ==
    { <<>>,
      <<"a">>,
      <<"A", ".", "a">>,
      <<"b", ".", "a">>,
      <<"a", ".", "b">>,
      <<"b", "b">> }

\* the loop over finditer run from offset from to the end of t: the counts
\* a call is left with when nothing else runs
RECURSIVE CountFrom(_, _, _, _)
CountFrom(data, t, from, counts) ==
    LET places == SortedPlaces(BuildTables(data).all_places_canonical)
        start  == NextMatchStart(t, from, places)
        end    == start + MatchLenAt(t, start, places)
        canonical_place ==
            CanonicalPlace(BuildTables(data).lower_to_canonical_place,
                           SubSeq(t, start + 1, end))
    IN  IF start < 0 THEN counts
        ELSE CountFrom(data, t, end,
                       IF canonical_place # <<>>
                       THEN Increment(counts, canonical_place)
                       ELSE counts)

\* search_colonial_places(t, data) run alone, when the matcher does not fail
SearchAlone(data, t) ==
    IF t = <<>> THEN EmptyTextResult(data)
    ELSE IF data = <<>> THEN ResultsTemplate
    ELSE IF BuildTables(data).all_places_canonical = {} THEN ZeroResult(data)
    ELSE FinalResult(data, CountFrom(data, t, 0, <<>>))

\* OwnCounts of a function that counts into the dict of the other call
OwnCounts_shared(mine, other) == other

\* found_places_counts is a local of the call, line 95: the dict a call
\* counts into is its own, whatever the dict of another call holds
OwnCounts(mine, other) == mine

\* the second caller calls search_colonial_places(t, captaincy_data), lines
\* 80-118, once the index is loaded
Call2(TextSet) ==
    /\ pc \in {"loaded", "scanning", "done"}
    /\ pc2 \in {"idle", "done"}
    /\ calls2 < MaxCalls
    /\ calls2' = calls2 + 1
    /\ \E t \in TextSet :
        /\ text2' = t
        /\ IF t = <<>>
           THEN pc2' = "done" /\ result2' = EmptyTextResult(captaincy_data)
           ELSE IF captaincy_data = <<>>
           THEN pc2' = "done" /\ result2' = ResultsTemplate
           ELSE IF BuildTables(captaincy_data).all_places_canonical = {}
           THEN pc2' = "done" /\ result2' = ZeroResult(captaincy_data)
           ELSE pc2' = "scanning" /\ result2' = NoResult
    /\ pos2' = 0
    /\ found_places_counts2' = NewCounts(found_places_counts2)
    /\ caught2' = "none"
    /\ UNCHANGED <<file, line_num, captaincy_data, assigned_places, pc, text, pos,
                   found_places_counts, result, loader, caught, auxvars>>

\* where the next match of the second caller's search starts
match_start2 == NextMatchStart(text2, pos2, sorted_places)

match_end2 == match_start2 + MatchLenAt(text2, match_start2, sorted_places)

\* one iteration of the second caller's loop over finditer, lines 125-133
ScanMatch2 ==
    /\ pc2 = "scanning"
    /\ match_start2 >= 0
    /\ LET canonical_place ==
               CanonicalPlace(BuildTables(captaincy_data).lower_to_canonical_place,
                              SubSeq(text2, match_start2 + 1, match_end2))
           counts == OwnCounts(found_places_counts2, found_places_counts)
       IN  found_places_counts2' =
               IF canonical_place # <<>>
               THEN Increment(counts, canonical_place)
               ELSE counts
    /\ pos2' = ResumeOffset(match_start2, match_end2)
    /\ UNCHANGED <<file, line_num, captaincy_data, assigned_places, pc, text, pos,
                   found_places_counts, result, loader, caught, pc2, text2,
                   result2, caught2, calls2, auxvars>>

\* the second caller's finditer is exhausted: lines 146-184
ScanEnd2 ==
    /\ pc2 = "scanning"
    /\ match_start2 < 0
    /\ pc2' = "done"
    /\ result2' = FinalResult(captaincy_data, found_places_counts2)
    /\ UNCHANGED <<file, line_num, captaincy_data, assigned_places, pc, text, pos,
                   found_places_counts, result, loader, caught, text2, pos2,
                   found_places_counts2, caught2, calls2, auxvars>>

\* re.compile or the matcher raises in the second caller's call, lines 137-144
ScanFail2 ==
    /\ pc2 = "scanning"
    /\ pc2' = "done"
    /\ result2' = FailResult(captaincy_data, found_places_counts2)
    /\ caught2' = "re.error"
    /\ UNCHANGED <<file, line_num, captaincy_data, assigned_places, pc, text, pos,
                   found_places_counts, result, loader, caught, text2, pos2,
                   found_places_counts2, calls2, auxvars>>

SearchBeginConc == SearchBeginFrom(ConcTexts)

Call2Conc == Call2(ConcTexts)

NextConc ==
    \/ LoadMissing
    \/ LoadLine
    \/ LoadFinish
    \/ LoadIOError
    \/ SearchBeginConc
    \/ ScanMatch
    \/ ScanEnd
    \/ ScanFail
    \/ Return
    \/ Call2Conc
    \/ ScanMatch2
    \/ ScanEnd2
    \/ ScanFail2

SpecConc == Init /\ [][NextConc]_vars

----------------------------------------------------------------------------
(* The command: main() of oxossi.extractors.places, lines 186-258, run as  *)
(* __main__.  It loads the gazetteer with load_place_captaincy_data, reads *)
(* the input file, scans its text and prints the result through            *)
(* format_and_output_json; every dead end prints a document with status    *)
(* "Erro" and leaves with sys.exit(1).                                     *)

\* the files main() may be given as input_file: one that does not exist,
\* one of an extension that is not supported, a .pdf and a .txt whose text
\* cannot be extracted or read, and readable ones of every supported
\* extension
InputFiles ==
    {[exists |-> FALSE, ext |-> "txt", readable |-> FALSE, content |-> <<>>],
     [exists |-> TRUE, ext |-> "other", readable |-> TRUE, content |-> <<>>],
     [exists |-> TRUE, ext |-> "pdf", readable |-> FALSE, content |-> <<>>],
     [exists |-> TRUE, ext |-> "txt", readable |-> FALSE, content |-> <<>>]}
    \cup [exists : {TRUE}, ext : {"pdf", "txt", "csv"}, readable : {TRUE},
          content : ConcTexts]

\* "results": null
Null == NoResult

\* what format_and_output_json(data, status, ...) prints, output_utils.py
\* lines 15-26: one JSON document with the status and the results (the
\* message is left out)
Document(status, data) == [status |-> status, results |-> data]

\* LoadVerdict of a main() that tests the loader's value for falsity only
LoadVerdict_falsy(p, data) ==
    IF p = "load_failed" \/ data = <<>> THEN "empty" ELSE "index"

\* lines 211-216: what main() makes of the loader's value, None (the loader
\* ended at p = "load_failed"), an empty dict or an index
LoadVerdict(p, data) ==
    IF p = "load_failed" THEN "none"
    ELSE IF data = <<>> THEN "empty"
    ELSE "index"

InitMain ==
    /\ InitEngine
    /\ loader = "module"
    /\ main_pc = "load"
    /\ input_file \in InputFiles
    /\ file_text = NoText
    /\ emitted = <<>>
    /\ exit_code = "running"
    /\ ExtractorsOff

\* lines 211-216: the loader has returned
MainCheckLoad ==
    /\ main_pc = "load"
    /\ pc \in {"load_failed", "loaded"}
    /\ LET verdict == LoadVerdict(pc, captaincy_data)
       IN  CASE verdict = "none" ->
                  /\ emitted' = Append(emitted, Document("Erro", Null))
                  /\ exit_code' = "exit 1"
                  /\ main_pc' = "exited"
             [] verdict = "empty" ->
                  /\ emitted' = Append(emitted, Document("Aviso", Null))
                  /\ main_pc' = "input"
                  /\ UNCHANGED exit_code
             [] OTHER ->
                  /\ main_pc' = "input"
                  /\ UNCHANGED <<emitted, exit_code>>
    /\ UNCHANGED <<file, line_num, captaincy_data, assigned_places, pc, text, pos,
                   found_places_counts, result, loader, caught, scan2vars,
                   input_file, file_text, namesvars, themesvars>>

\* lines 218-244: the input file is looked for and read
MainReadInput ==
    /\ main_pc = "input"
    /\ IF /\ input_file.exists
          /\ input_file.ext \in {"pdf", "txt", "csv"}
          /\ input_file.readable
       THEN /\ file_text' = [read |-> TRUE, text |-> input_file.content]
            /\ main_pc' = "search"
            /\ UNCHANGED <<emitted, exit_code>>
       ELSE /\ emitted' = Append(emitted, Document("Erro", Null))
            /\ exit_code' = "exit 1"
            /\ main_pc' = "exited"
            /\ UNCHANGED file_text
    /\ UNCHANGED <<file, line_num, captaincy_data, assigned_places, pc, text, pos,
                   found_places_counts, result, loader, caught, scan2vars,
                   input_file, namesvars, themesvars>>

\* line 246: search_colonial_places(file_text, captaincy_place_map or {})
MainSearch ==
    /\ main_pc = "search"
    /\ SearchBeginFrom({file_text.text})

\* lines 248-256: the result is printed and main() returns
MainOutput ==
    /\ main_pc = "search"
    /\ pc = "done"
    /\ emitted' = Append(emitted,
                         Document(IF result.found_places_details # <<>>
                                  THEN "Sucesso" ELSE "Aviso", result))
    /\ exit_code' = "exit 0"
    /\ main_pc' = "exited"
    /\ UNCHANGED <<file, line_num, captaincy_data, assigned_places, pc, text, pos,
                   found_places_counts, result, loader, caught, scan2vars,
                   input_file, file_text, namesvars, themesvars>>

NextMain ==
    \/ LoadMissing
    \/ LoadLine
    \/ LoadFinish
    \/ LoadIOError
    \/ MainCheckLoad
    \/ MainReadInput
    \/ MainSearch
    \/ ScanMatch
    \/ ScanEnd
    \/ ScanFail
    \/ MainOutput

SpecMain == InitMain /\ [][NextMain]_vars

----------------------------------------------------------------------------
(* extract_potential_names, of oxossi.extractors.names ("module") and of    *)
(* ox_extract_names ("script"): the text is cut into words, and a name is   *)
(* collected from a first name on, through first names, surnames and        *)
(* prepositions, until a word that is none of them.                         *)

MaxWords == 4      \* words of a text given to the extractors of names and themes

\* the sets of names.json
NamesConfigs ==
    { [first_names |-> {<<"P", "a">>}, second_names |-> {<<"Q", "a">>},
       prepositions |-> {<<"a">>}],
      [first_names |-> {<<"P", "a">>, <<"A">>}, second_names |-> {<<"Q", "a">>},
       prepositions |-> {<<"a">>}] }

\* the words of the texts
NameWords ==
    { <<"P", "a">>,          \* a first name
      <<"p", "a", ".">>,     \* the same in lower case, with a full stop
      <<"Q", "a">>,          \* a surname
      <<"Q", "a", ",">>,     \* a surname with a comma
      <<"a">>,               \* a preposition
      <<"A">>,               \* the preposition in upper case
      <<"q">>,               \* a word that is none of them
      <<".">> }              \* punctuation alone

NameTexts ==
    {JoinWords(ws) : ws \in UNION {[1..n -> NameWords] : n \in 0..MaxWords}}
    \cup {<<" ">>}

\* the characters word.strip(...) removes, names.py line 39 and
\* ox_extract_names.py line 74
NameStripChars(impl) ==
    IF impl = "module"
    THEN {".", ",", ";", "!", "?", "(", ")", "[", "]", "{", "}", "\"", ":", "'"}
    ELSE {".", ",", ";", "!", "?", "(", ")", "[", "]", "{", "}"}

\* str.split(' ')
RECURSIVE SplitOnSpace(_)
SplitOnSpace(s) ==
    IF \A i \in 1..Len(s) : s[i] # " " THEN <<s>>
    ELSE <<FirstWord(s)>> \o SplitOnSpace(SubSeq(s, Len(FirstWord(s)) + 2, Len(s)))

\* ' '.join(text.split()).split(' ')
NormalizedWords(t) == SplitOnSpace(JoinWords(SplitWhitespace(t)))

\* LastIsPreposition of a function that never looks at the last part
LastIsPreposition_never(parts, prepositions) == FALSE

\* current_name_parts[-1].lower() in prepositions
LastIsPreposition(parts, prepositions) ==
    Lower(parts[Len(parts)]) \in prepositions

\* the name in current_name_parts is appended to found_names when it does
\* not end with a preposition and has two parts or more
Flush(found, parts, prepositions) ==
    IF parts # <<>> /\ ~LastIsPreposition(parts, prepositions) /\ Len(parts) >= 2
    THEN Append(found, JoinWords(parts))
    ELSE found

\* the body of the loop of names.py, lines 38-76
NamesStepModule(st, word, cfg) ==
    LET cleaned_word     == StripChars(word, NameStripChars("module"))
        capitalized_word == Capitalize(cleaned_word)
        lower_word       == Lower(cleaned_word)
        is_first  == capitalized_word \in cfg.first_names
        is_second == capitalized_word \in cfg.second_names
        is_prep   == lower_word \in cfg.prepositions
        parts     == st.parts
    IN  IF cleaned_word = <<>>
        THEN [parts |-> <<>>, found |-> Flush(st.found, parts, cfg.prepositions)]
        ELSE IF parts = <<>>
        THEN [parts |-> IF is_first THEN <<capitalized_word>> ELSE <<>>,
              found |-> st.found]
        ELSE LET last_part_was_prep == LastIsPreposition(parts, cfg.prepositions)
             IN  IF is_first /\ ~last_part_was_prep
                 THEN [parts |-> Append(parts, capitalized_word), found |-> st.found]
                 ELSE IF is_prep /\ ~last_part_was_prep
                 THEN [parts |-> Append(parts, lower_word), found |-> st.found]
                 ELSE IF is_second
                 THEN [parts |-> Append(parts, capitalized_word), found |-> st.found]
                 ELSE [parts |-> IF is_first THEN <<capitalized_word>> ELSE <<>>,
                       found |-> IF ~last_part_was_prep /\ Len(parts) >= 2
                                 THEN Append(st.found, JoinWords(parts))
                                 ELSE st.found]

\* the body of the loop of ox_extract_names.py, lines 73-103
NamesStepScript(st, word, cfg) ==
    LET cleaned_word     == StripChars(word, NameStripChars("script"))
        capitalized_word == Capitalize(cleaned_word)
        is_first  == capitalized_word \in cfg.first_names
        is_second == capitalized_word \in cfg.second_names
        is_prep   == Lower(cleaned_word) \in cfg.prepositions
        parts     == st.parts
        is_part_of_name == is_first \/ is_second \/ (is_prep /\ parts # <<>>)
    IN  IF capitalized_word = <<>> THEN st
        ELSE IF is_part_of_name
        THEN IF is_first /\ parts = <<>>
             THEN [parts |-> <<capitalized_word>>, found |-> st.found]
             ELSE IF parts # <<>>
             THEN [parts |-> Append(parts, IF is_prep THEN cleaned_word
                                           ELSE capitalized_word),
                   found |-> st.found]
             ELSE st
        ELSE [parts |-> <<>>, found |-> Flush(st.found, parts, cfg.prepositions)]

\* the loop over the words
RECURSIVE NamesLoop(_, _, _, _)
NamesLoop(impl, st, words, cfg) ==
    IF words = <<>> THEN st
    ELSE NamesLoop(impl,
                   IF impl = "module" THEN NamesStepModule(st, Head(words), cfg)
                   ELSE NamesStepScript(st, Head(words), cfg),
                   Tail(words), cfg)

\* names.py lines 84-85: the list without the repetitions of a name
RECURSIVE Unique(_)
Unique(names) ==
    IF names = <<>> THEN <<>>
    ELSE LET front == Unique(SubSeq(names, 1, Len(names) - 1))
             last  == names[Len(names)]
         IN  IF \E i \in 1..Len(front) : front[i] = last THEN front
             ELSE Append(front, last)

\* extract_potential_names(t, cfg.first_names, cfg.second_names,
\* cfg.prepositions) of the implementation impl
ExtractPotentialNames(impl, t, cfg) ==
    IF t = <<>> THEN <<>>
    ELSE IF impl = "script" /\ cfg.first_names = {} /\ cfg.second_names = {}
    THEN <<>>
    ELSE LET st == NamesLoop(impl, [parts |-> <<>>, found |-> <<>>],
                             NormalizedWords(t), cfg)
             found_names == Flush(st.found, st.parts, cfg.prepositions)
         IN  IF impl = "module" THEN Unique(found_names) ELSE found_names

InitNames ==
    /\ EngineOff
    /\ MainOff
    /\ names_call \in [returned : {TRUE},
                       value : [impl : {"module", "script"}, text : NameTexts,
                                cfg : NamesConfigs]]
    /\ names_result = Nothing
    /\ themes_call = Nothing
    /\ themes_result = Nothing

\* the call returns
ExtractNames ==
    /\ ~names_result.returned
    /\ names_call.returned
    /\ names_result' =
           [returned |-> TRUE,
            value |-> ExtractPotentialNames(names_call.value.impl,
                                            names_call.value.text,
                                            names_call.value.cfg)]
    /\ UNCHANGED <<file, line_num, captaincy_data, assigned_places, pc, text, pos,
                   found_places_counts, result, loader, caught, scan2vars,
                   mainvars, names_call, themesvars>>

NextNames == ExtractNames

SpecNames == InitNames /\ [][NextNames]_vars

----------------------------------------------------------------------------
(* analyze_text_themes of oxossi.extractors.themes: the words of the text  *)
(* are counted, and each theme gets the counts of its keywords.            *)

\* theme_groups, a dict theme -> list of keywords, in insertion order
ThemeGroupsSet ==
    { <<>>,
      <<[theme |-> <<"P">>, keywords |-> << <<"p", "a">>, <<" ", "Q", "a">> >>],
        [theme |-> <<"Q">>, keywords |-> << <<"a">> >>]>>,
      <<[theme |-> <<"Q">>, keywords |-> << <<"a">>, <<"p", "a">> >>],
        [theme |-> <<"P">>, keywords |-> << <<"p", "a">> >>]>> }

\* the words of the texts
ThemeWords ==
    { <<"p", "a">>,          \* a keyword
      <<"P", "a">>,          \* the keyword capitalised
      <<"p", "a", ".">>,     \* the keyword followed by a full stop
      <<"p", "a", ",">>,     \* the keyword followed by a comma
      <<"q", "a">>,          \* another keyword
      <<"a">>,               \* a keyword of the other theme
      <<"q">> }              \* a word that is no keyword

ThemeTexts ==
    {JoinWords(ws) : ws \in UNION {[1..n -> ThemeWords] : n \in 0..MaxWords}}

\* text_word_counts.get(w, 0) for the Counter of the list words
WordCount(words, w) == Cardinality({i \in 1..Len(words) : words[i] = w})

\* lines 50-53: the count of one keyword, 0 for a keyword that is blank
KeywordCount(words, keyword) ==
    IF Strip(Lower(keyword)) = <<>> THEN 0
    ELSE WordCount(words, Strip(Lower(keyword)))

\* lines 48-58: theme_total, the sum over the list of keywords
RECURSIVE ThemeTotal(_, _)
ThemeTotal(words, keywords) ==
    IF keywords = <<>> THEN 0
    ELSE KeywordCount(words, Head(keywords)) + ThemeTotal(words, Tail(keywords))

\* the keywords of all the groups, lowered and stripped
AllKeywords(groups) ==
    UNION {{Strip(Lower(groups[i].keywords[j])) : j \in 1..Len(groups[i].keywords)} :
              i \in 1..Len(groups)} \ {<<>>}

\* round(count / total * 100, 2), in hundredths of a percent; below a total
\* of 32 no quotient lies half-way between two hundredths
Percentage(count, total) == (20000 * count + total) \div (2 * total)

\* lines 72-80: the selection of top_theme
TopTheme(groups, theme_counts) ==
    LET positive == {t \in DOMAIN theme_counts : theme_counts[t] > 0}
    IN  IF positive = {} THEN NoTop
        ELSE LET max_count == MaxScore([t \in positive |-> theme_counts[t]])
                 IsTop(t) == t \in positive /\ theme_counts[t] = max_count
                 tied == SelectSeq([i \in 1..Len(groups) |-> groups[i].theme], IsTop)
             IN  IF Len(tied) = 1 THEN [kind |-> "scalar", names |-> tied]
                 ELSE [kind |-> "list", names |-> SortedNames(tied)]

\* results_template, lines 24-30
ThemesTemplate ==
    [theme_counts |-> <<>>, keyword_counts |-> <<>>, top_theme |-> NoTop,
     theme_percentages |-> <<>>, total_keywords_found |-> 0]

\* analyze_text_themes(t, groups)
AnalyzeTextThemes(t, groups) ==
    IF t = <<>> \/ groups = <<>> THEN ThemesTemplate
    ELSE LET words_in_text == SplitWhitespace(Lower(t))
             themes == {groups[i].theme : i \in 1..Len(groups)}
             KeywordsOf(th) ==
                 groups[CHOOSE i \in 1..Len(groups) : groups[i].theme = th].keywords
             theme_counts ==
                 [th \in themes |->
                     ThemeTotal(words_in_text, KeywordsOf(th))]
             found == {k \in AllKeywords(groups) : WordCount(words_in_text, k) > 0}
             keyword_counts == [k \in found |-> WordCount(words_in_text, k)]
             RECURSIVE Total(_)
             Total(i) == IF i = 0 THEN 0
                         ELSE Total(i - 1) + theme_counts[groups[i].theme]
             all_keywords_found_count == Total(Len(groups))
         IN  IF all_keywords_found_count = 0
             THEN [theme_counts |-> theme_counts, keyword_counts |-> keyword_counts,
                   top_theme |-> NoTop, theme_percentages |-> <<>>,
                   total_keywords_found |-> 0]
             ELSE [theme_counts |-> theme_counts, keyword_counts |-> keyword_counts,
                   top_theme |-> TopTheme(groups, theme_counts),
                   theme_percentages |->
                       [th \in themes |->
                           Percentage(theme_counts[th], all_keywords_found_count)],
                   total_keywords_found |-> all_keywords_found_count]

InitThemes ==
    /\ EngineOff
    /\ MainOff
    /\ names_call = Nothing
    /\ names_result = Nothing
    /\ themes_call \in [returned : {TRUE},
                        value : [text : ThemeTexts, theme_groups : ThemeGroupsSet]]
    /\ themes_result = Nothing

\* the call returns
AnalyzeThemes ==
    /\ ~themes_result.returned
    /\ themes_call.returned
    /\ themes_result' =
           [returned |-> TRUE,
            value |-> AnalyzeTextThemes(themes_call.value.text,
                                        themes_call.value.theme_groups)]
    /\ UNCHANGED <<file, line_num, captaincy_data, assigned_places, pc, text, pos,
                   found_places_counts, result, loader, caught, scan2vars,
                   mainvars, namesvars, themes_call>>

NextThemes == AnalyzeThemes

SpecThemes == InitThemes /\ [][NextThemes]_vars

----------------------------------------------------------------------------
(* The standalone script ox_extract_places, translated on its own: its     *)
(* loader load_captaincy_data and its search_colonial_places.              *)

\* lines 53-67: what the loop of load_captaincy_data makes of one line
ScriptParseLine(raw) ==
    LET line  == Strip(raw)
        parts == SplitFirstComma(line)
    IN  IF line = <<>> \/ Head(line) = "#" THEN [kind |-> "ignored"]
        ELSE IF Len(parts) = 2
        THEN LET place == Strip(parts[1])
                 captaincy == Strip(parts[2])
             IN  IF place # <<>> /\ captaincy # <<>>
                 THEN [kind |-> "record", place |-> place, captaincy |-> captaincy]
                 ELSE [kind |-> "empty_field"]
        ELSE [kind |-> "malformed"]

\* lines 52-68: the loop over the lines of the file
RECURSIVE ScriptLoadLines(_, _, _)
ScriptLoadLines(lines, data, assigned) ==
    IF lines = <<>> THEN data
    ELSE LET r == ScriptParseLine(Head(lines))
         IN  IF r.kind = "record" /\ r.place \notin assigned
             THEN ScriptLoadLines(Tail(lines),
                                  AppendPlace(data, r.captaincy, r.place),
                                  assigned \cup {r.place})
             ELSE ScriptLoadLines(Tail(lines), data, assigned)

\* load_captaincy_data of a file that is read to its end
ScriptLoad(lines) == ScriptLoadLines(lines, <<>>, {})

\* lines 126-132: the loop over finditer, from offset from
RECURSIVE ScriptCount(_, _, _, _)
ScriptCount(data, t, from, counts) ==
    LET tables == BuildTables(data)
        places == SortedPlaces(tables.all_places_canonical)
        start  == NextMatchStart(t, from, places)
        end    == start + MatchLenAt(t, start, places)
        low    == Lower(SubSeq(t, start + 1, end))
    IN  IF start < 0 THEN counts
        ELSE IF low \in DOMAIN tables.lower_to_canonical_place
        THEN ScriptCount(data, t, end,
                         Increment(counts, tables.lower_to_canonical_place[low]))
        ELSE ScriptCount(data, t, end, counts)

\* ScriptTopCaptaincy of a function that reports a tie by its first name
ScriptTopCaptaincy_first(data, scores) ==
    LET top == TopCaptaincy(data, scores)
    IN  IF top.kind = "list" THEN [kind |-> "scalar", names |-> <<top.names[1]>>]
        ELSE top

\* lines 155-166: top_captaincy, computed under "if captaincy_scores:"
ScriptTopCaptaincy(data, scores) ==
    IF DOMAIN scores = {} THEN NoTop
    ELSE LET positive == {c \in DOMAIN scores : scores[c] > 0}
         IN  IF positive = {} THEN NoTop
             ELSE LET max_score == MaxScore([c \in positive |-> scores[c]])
                      IsTied(c) == c \in positive /\ scores[c] = max_score
                      tied == SelectSeq(CapOrder(data), IsTied)
                  IN  IF Len(tied) = 1 THEN [kind |-> "scalar", names |-> tied]
                      ELSE [kind |-> "list", names |-> SortedNames(tied)]

\* lines 134-142: what the script returns when the matcher raises
ScriptFailResult(data) == MakeResult(<<>>, NoTop, ZeroScores(data))

\* lines 82-174: search_colonial_places of the script, when the matcher
\* does not raise
ScriptSearch(data, t) ==
    IF t = <<>> THEN MakeResult(<<>>, NoTop, <<>>)
    ELSE IF data = <<>> THEN MakeResult(<<>>, NoTop, <<>>)
    ELSE IF BuildTables(data).all_places_canonical = {}
    THEN MakeResult(<<>>, NoTop, ZeroScores(data))
    ELSE LET counts == ScriptCount(data, t, 0, <<>>)
         IN  IF DOMAIN counts = {}
             THEN MakeResult(<<>>, NoTop, ZeroScores(data))
             ELSE LET scores == AddCounts(ZeroScores(data), counts, DOMAIN counts,
                                          BuildTables(data).place_to_captaincy)
                  IN  MakeResult(SortedItems(counts),
                                 ScriptTopCaptaincy(data, scores), scores)

----------------------------------------------------------------------------
(* Vocabulary of the properties *)

\* the places the pattern of the current gazetteer is built from
GazetteerPlaces == BuildTables(captaincy_data).all_places_canonical

\* the (captaincy, place) bindings of the loaded gazetteer
Bindings ==
    {ItemPairs(captaincy_data)[i] : i \in 1..Len(ItemPairs(captaincy_data))}

\* the places the loaded gazetteer lists under captaincy c
PlacesOf(c) == {b[2] : b \in {q \in Bindings : q[1] = c}}

\* the places reported in the returned found_places_details
FoundPlaces(r) ==
    {r.found_places_details[i][1] : i \in 1..Len(r.found_places_details)}

Scores == result.all_captaincy_scores

----------------------------------------------------------------------------
(* C1: after a scan of a non-empty text against a non-empty gazetteer,      *)
(* whether places matched, nothing matched or the matcher failed, the keys *)
(* of all_captaincy_scores are exactly the captaincies of the gazetteer,   *)
(* every score is a non-negative integer, and a captaincy none of whose    *)
(* places was found has score 0.                                           *)
C1_ScoresComplete ==
    (pc = "done" /\ text # <<>> /\ captaincy_data # <<>>) =>
        /\ DOMAIN Scores = Captaincies(captaincy_data)
        /\ \A c \in DOMAIN Scores : Scores[c] \in Nat
        /\ \A c \in Captaincies(captaincy_data) :
              PlacesOf(c) \cap FoundPlaces(result) = {} => Scores[c] = 0

\* a scan that found a place of one captaincy and none of another
C1_Witness ==
    /\ pc = "done"
    /\ text # <<>>
    /\ \E c, d \in Captaincies(captaincy_data) :
          /\ PlacesOf(c) \cap FoundPlaces(result) # {}
          /\ Scores[c] > 0
          /\ PlacesOf(d) \cap FoundPlaces(result) = {}
          /\ Scores[d] = 0

(* C2: a scan of the empty text against a non-empty gazetteer returns      *)
(* found_places_details = [], no top_captaincy, and an all_captaincy_scores*)
(* that holds every captaincy of the gazetteer with score 0.               *)
C2_EmptyTextZeroScores ==
    (pc = "done" /\ text = <<>> /\ captaincy_data # <<>>) =>
        /\ result.found_places_details = <<>>
        /\ result.top_captaincy = NoTop
        /\ DOMAIN Scores = Captaincies(captaincy_data)
        /\ \A c \in DOMAIN Scores : Scores[c] = 0

----------------------------------------------------------------------------
(* Vocabulary of the scan *)

\* defaultdict read: the count of place p, 0 when it has none
CountOf(counts, p) == IF p \in DOMAIN counts THEN counts[p] ELSE 0

\* the gazetteer entry under which occurrences of p are counted
Canonical(p) ==
    CanonicalPlace(BuildTables(captaincy_data).lower_to_canonical_place, p)

\* s is a proper prefix of l, letter case aside
IsProperPrefix(s, l) ==
    Len(s) < Len(l) /\ SubSeq(Lower(l), 1, Len(s)) = Lower(s)

\* place p occurs at offset k of the text between two word boundaries
ValidMatchAt(k, p) == WordBoundary(text, k) /\ AlternativeAt(text, k, p)

\* the occurrence of p at offset k is the match the scan in progress is at:
\* nothing matches between the resume offset and k, and no longer place
\* matches at k
IsTheMatch(k, p) ==
    /\ p \in GazetteerPlaces
    /\ k \in pos..Len(text)
    /\ ValidMatchAt(k, p)
    /\ \A j \in pos..(k - 1) : \A q \in GazetteerPlaces : ~ValidMatchAt(j, q)
    /\ \A q \in GazetteerPlaces : ValidMatchAt(k, q) => Len(q) <= Len(p)

\* a step of the loop over finditer
ScanStep == pc = "scanning" /\ pc' = "scanning"

(* C3: longest-match priority.  For gazetteer places S and L with S a      *)
(* proper prefix of L: when the match the scan is at is an occurrence of L *)
(* (word-bounded, the longest place matching there), the step adds one to  *)
(* the count kept for L and leaves the count kept for S alone; and when    *)
(* the match is a standalone occurrence of S, the step adds one to the     *)
(* count kept for S.                                                       *)
C3_LongestMatch ==
    [][ScanStep =>
          \A S, L \in GazetteerPlaces :
              IsProperPrefix(S, L) =>
                  /\ \A k \in 0..Len(text) :
                        IsTheMatch(k, L) =>
                            /\ CountOf(found_places_counts', Canonical(L)) =
                                   CountOf(found_places_counts, Canonical(L)) + 1
                            /\ CountOf(found_places_counts', Canonical(S)) =
                                   CountOf(found_places_counts, Canonical(S))
                  /\ \A k \in 0..Len(text) :
                        IsTheMatch(k, S) =>
                            CountOf(found_places_counts', Canonical(S)) =
                                CountOf(found_places_counts, Canonical(S)) + 1
       ]_vars

\* a finished scan of a text that starts with L, where S would match too, and
\* holds a standalone S further on: each was counted once
C3_Witness ==
    /\ pc = "done"
    /\ result.found_places_details # <<>>
    /\ \E S, L \in GazetteerPlaces :
          /\ IsProperPrefix(S, L)
          /\ LiteralAt(text, 0, L)
          /\ WordBoundary(text, Len(S))
          /\ WordBoundary(text, Len(L))
          /\ \E k \in (Len(L) + 1)..Len(text) : ValidMatchAt(k, S)
          /\ CountOf(found_places_counts, Canonical(L)) = 1
          /\ CountOf(found_places_counts, Canonical(S)) = 1

(* C4: word-boundary law.  An occurrence of a gazetteer place that is      *)
(* immediately preceded or immediately followed by a word character never  *)
(* increments a count: every step that increments one is at a match with   *)
(* no word character right before it and none right after it.              *)
C4_NoWordCharNeighbour ==
    [][(ScanStep /\ found_places_counts' # found_places_counts) =>
          /\ ~IsWordAt(text, match_start)
          /\ ~IsWordAt(text, match_end + 1)
       ]_vars

(* C5: case-insensitivity law.  Whenever the match the scan is at is an     *)
(* occurrence of a gazetteer place P in whatever letter case, the step     *)
(* adds one to exactly one entry, a gazetteer place equal to P up to case, *)
(* and the counts never hold two entries that differ only in case; the     *)
(* places reported in found_places_details are spelled as in the gazetteer.*)
C5_CaseInsensitive ==
    [][/\ ScanStep =>
            \A P \in GazetteerPlaces : \A k \in 0..Len(text) :
                IsTheMatch(k, P) =>
                    \E e \in GazetteerPlaces :
                        /\ Lower(e) = Lower(P)
                        /\ DOMAIN found_places_counts' = DOMAIN found_places_counts \cup {e}
                        /\ found_places_counts'[e] = CountOf(found_places_counts, e) + 1
                        /\ \A q \in DOMAIN found_places_counts :
                              q # e => found_places_counts'[q] = found_places_counts[q]
                        /\ \A q \in DOMAIN found_places_counts' :
                              Lower(q) = Lower(e) => q = e
       /\ pc' = "done" =>
            /\ FoundPlaces(result') \subseteq GazetteerPlaces
            /\ \A p, q \in FoundPlaces(result') : Lower(p) = Lower(q) => p = q
       ]_vars

\* a finished scan of a text that holds a place twice, in two different
\* casings: one entry, spelled as in the gazetteer, counted twice
C5_Witness ==
    /\ pc = "done"
    /\ \E P \in GazetteerPlaces : \E k1, k2 \in 0..Len(text) :
          /\ k1 < k2
          /\ ValidMatchAt(k1, P)
          /\ ValidMatchAt(k2, P)
          /\ SubSeq(text, k1 + 1, k1 + Len(P)) # SubSeq(text, k2 + 1, k2 + Len(P))
          /\ result.found_places_details = <<(<<Canonical(P), 2>>)>>

\* the place recorded first, in the order of the loaded gazetteer, among
\* those equal to m up to case; two such places on a two-line file come in
\* the order of their lines
FirstRecorded(m) ==
    LET pairs == ItemPairs(captaincy_data)
        first == CHOOSE i \in 1..Len(pairs) :
                    /\ Lower(pairs[i][2]) = Lower(m)
                    /\ \A j \in 1..(i - 1) : Lower(pairs[j][2]) # Lower(m)
    IN  pairs[first][2]

(* C6: every match resolves to the canonical place as first recorded: when *)
(* the gazetteer holds two places that differ only in letter case, every   *)
(* match is counted under the one recorded first.                          *)
C6_FirstRecordedCanonical ==
    \A p \in DOMAIN found_places_counts : p = FirstRecorded(p)

\* the records among the lines read so far, by line number
RecordLines == {i \in 1..line_num : ParseLine(file.lines[i]).kind = "record"}

\* the captaincy named on the first valid line read so far that carries place p
FirstBinding(p) ==
    LET first == CHOOSE i \in RecordLines :
                    /\ ParseLine(file.lines[i]).place = p
                    /\ \A j \in RecordLines :
                          ParseLine(file.lines[j]).place = p => i <= j
    IN  ParseLine(file.lines[first]).captaincy

(* C7: first binding wins.  After the loader has read any prefix of the    *)
(* file, each place of a valid line read so far is in exactly one list of  *)
(* captaincy_data, once, under the captaincy of the first valid line that  *)
(* carries it; the dict holds nothing else, so a later line that repeats a *)
(* place has changed nothing.                                              *)
C7_FirstBindingWins ==
    (pc = "loading" /\ file.exists) =>
        LET pairs == ItemPairs(captaincy_data)
            seen  == {ParseLine(file.lines[i]).place : i \in RecordLines}
        IN  /\ \A p \in seen :
                  /\ Cardinality({n \in 1..Len(pairs) : pairs[n][2] = p}) = 1
                  /\ \A n \in 1..Len(pairs) :
                        pairs[n][2] = p => pairs[n][1] = FirstBinding(p)
            /\ \A n \in 1..Len(pairs) : pairs[n][2] \in seen
            /\ Captaincies(captaincy_data) = {FirstBinding(p) : p \in seen}
            /\ Cardinality(Captaincies(captaincy_data)) = Len(captaincy_data)
            /\ assigned_places = seen

\* two valid lines were read that carry the same place under two captaincies
C7_Witness ==
    /\ pc = "loading"
    /\ file.exists
    /\ \E i, j \in RecordLines :
          /\ i < j
          /\ ParseLine(file.lines[i]).place = ParseLine(file.lines[j]).place
          /\ ParseLine(file.lines[i]).captaincy # ParseLine(file.lines[j]).captaincy

\* the captaincies that hold the maximum positive score of the result
TopScorers ==
    {c \in DOMAIN Scores :
        Scores[c] > 0 /\ \A d \in DOMAIN Scores : Scores[d] <= Scores[c]}

(* C8: tie-break law.  In every result, one captaincy alone at the maximum *)
(* positive score is top_captaincy as a scalar; two or more are            *)
(* top_captaincy as the list of exactly those, in ascending lexicographic  *)
(* order; top_captaincy is never a list of fewer than two names.           *)
C8_TieBreak ==
    pc = "done" =>
        LET top == result.top_captaincy
        IN  /\ Cardinality(TopScorers) = 1 =>
                  top.kind = "scalar" /\ Len(top.names) = 1 /\ top.names[1] \in TopScorers
            /\ Cardinality(TopScorers) >= 2 =>
                  /\ top.kind = "list"
                  /\ Len(top.names) = Cardinality(TopScorers)
                  /\ {top.names[i] : i \in 1..Len(top.names)} = TopScorers
                  /\ \A i \in 1..(Len(top.names) - 1) :
                        StrLess(top.names[i], top.names[i + 1])
            /\ top.kind = "list" => Len(top.names) >= 2

\* a tie between captaincies that the gazetteer lists in another order than
\* the lexicographic one
C8_Witness ==
    /\ pc = "done"
    /\ result.top_captaincy.kind = "list"
    /\ Cardinality(TopScorers) = 2
    /\ SelectSeq(CapOrder(captaincy_data), LAMBDA c : c \in TopScorers)
           # result.top_captaincy.names

\* the text holds place p somewhere, letter case aside
Contains(p) == \E k \in 0..Len(text) : LiteralAt(text, k, p)

(* C9: top_captaincy is absent exactly when no captaincy has a positive    *)
(* score in all_captaincy_scores; a non-empty text that holds no gazetteer *)
(* place gives an absent top_captaincy and a score map of zeros over the   *)
(* captaincies.                                                            *)
C9_NoTopIffNoPositive ==
    pc = "done" =>
        /\ result.top_captaincy = NoTop <=> \A c \in DOMAIN Scores : Scores[c] <= 0
        /\ result.top_captaincy.kind \in {"none", "scalar", "list"}
        /\ result.top_captaincy.kind = "none" <=> result.top_captaincy = NoTop
        /\ (/\ text # <<>>
            /\ captaincy_data # <<>>
            /\ \A p \in GazetteerPlaces : ~Contains(p)) =>
               /\ result.top_captaincy = NoTop
               /\ Scores = [c \in Captaincies(captaincy_data) |-> 0]

\* a scan that ran to its end on a text without any gazetteer place
C9_Witness ==
    /\ pc = "done"
    /\ text # <<>>
    /\ captaincy_data # <<>>
    /\ \A p \in GazetteerPlaces : ~Contains(p)
    /\ pos = 0
    /\ result.top_captaincy = NoTop
    /\ DOMAIN Scores # {}

\* the sum of the counts that details reports for the places of captaincy c
RECURSIVE SumOfCounts(_, _)
SumOfCounts(details, c) ==
    IF details = <<>> THEN 0
    ELSE (IF Head(details)[1] \in PlacesOf(c) THEN Head(details)[2] ELSE 0)
         + SumOfCounts(Tail(details), c)

(* C10: aggregation.  The score of each captaincy is the sum of the        *)
(* occurrence counts reported for the places the gazetteer binds to it,    *)
(* unweighted; every reported place is bound to exactly one captaincy, so  *)
(* its count is added there and nowhere else.                              *)
C10_ScoreIsSumOfCounts ==
    pc = "done" =>
        /\ \A c \in DOMAIN Scores :
              Scores[c] = SumOfCounts(result.found_places_details, c)
        /\ \A p \in FoundPlaces(result) :
              Cardinality({c \in Captaincies(captaincy_data) : p \in PlacesOf(c)}) = 1

\* one captaincy scored the counts of two of its places, one of them found twice
C10_Witness ==
    /\ pc = "done"
    /\ \E c \in DOMAIN Scores :
          /\ Cardinality(PlacesOf(c) \cap FoundPlaces(result)) = 2
          /\ Scores[c] = 3

----------------------------------------------------------------------------
(* C11..C20 *)

\* the entries of found_places_details of the result
Details == result.found_places_details

\* C11: found_places_details lists exactly the gazetteer places the scan
\* counted at least once, each with its count: every count is positive, no
\* place appears twice, a place that was not counted is absent, and the
\* pairs are in ascending order of the place name.  (A scan whose matcher
\* failed returns the empty list of C16 instead.)
C11_DetailsExact ==
    pc = "done" =>
        /\ \A i \in 1..Len(Details) :
               /\ Details[i][1] \in GazetteerPlaces
               /\ Details[i][2] > 0
        /\ \A i, j \in 1..Len(Details) :
               i < j => StrLess(Details[i][1], Details[j][1])
        /\ caught = "none" =>
               \A p \in GazetteerPlaces :
                   CountOf(found_places_counts, p) > 0
                   <=> \E i \in 1..Len(Details) :
                          Details[i] = <<p, CountOf(found_places_counts, p)>>

\* two places were counted, the one that sorts last was met first and the
\* other was counted twice
C11_Witness ==
    /\ pc = "done"
    /\ Len(Details) = 2
    /\ Details[1][2] = 2
    /\ LiteralAt(text, 0, Details[2][1])

\* C12: with an empty text or an empty gazetteer the search returns (it
\* catches nothing and raises nothing) found_places_details = [] and no
\* top_captaincy; with an empty gazetteer all_captaincy_scores is the empty
\* map.
C12_EmptyInput ==
    (pc = "done" /\ (text = <<>> \/ captaincy_data = <<>>)) =>
        /\ result.returned
        /\ caught = "none"
        /\ Details = <<>>
        /\ result.top_captaincy = NoTop
        /\ captaincy_data = <<>> => DOMAIN Scores = {}

\* a text that is not empty was searched with an empty gazetteer
C12_Witness ==
    /\ pc = "done"
    /\ text # <<>>
    /\ captaincy_data = <<>>
    /\ caught = "none"
    /\ result.returned

\* number of commas of s
CommaCount(s) == Cardinality({i \in 1..Len(s) : s[i] = ","})

\* a line that is neither blank nor a comment and does not hold a record: it
\* has no comma to yield two fields, or the text before its first comma or
\* the text after it is empty once trimmed
IsInvalidLine(raw) ==
    LET line == Strip(raw)
    IN  /\ line # <<>>
        /\ Head(line) # "#"
        /\ \/ CommaCount(line) = 0
           \/ Strip(SubSeq(line, 1, FirstComma(line) - 1)) = <<>>
           \/ Strip(SubSeq(line, FirstComma(line) + 1, Len(line))) = <<>>

\* the place of every record line read so far is bound
RecordsLoaded ==
    \A i \in RecordLines :
        \E b \in Bindings : b[2] = ParseLine(file.lines[i]).place

\* C13: a line that does not yield two fields, or whose place or captaincy
\* is empty after trimming, is skipped: reading it binds no place, creates
\* no captaincy entry and does not end the load, and every valid line
\* before and after it is loaded.
C13_InvalidLineSkipped ==
    [][ /\ (/\ pc = "loading"
            /\ line_num' = line_num + 1
            /\ IsInvalidLine(file.lines[line_num + 1]))
           => /\ pc' = "loading"
              /\ captaincy_data' = captaincy_data
              /\ assigned_places' = assigned_places
        /\ pc' = "loading" => RecordsLoaded'
      ]_vars

\* an invalid line was read and the record that follows it is loaded
C13_Witness ==
    /\ pc = "loading"
    /\ line_num = 2
    /\ IsInvalidLine(file.lines[1])
    /\ \E b \in Bindings : b[2] = ParseLine(file.lines[2]).place

\* the file holds no line that is a record
NoValidRecord == \A i \in 1..Len(file.lines) : ParseLine(file.lines[i]).kind # "record"

\* C14: for a file that does not exist the loader ends with its failure
\* signal (None from load_place_captaincy_data, FileNotFoundError from
\* load_captaincy_data) and never with an index; for a file that exists, is
\* read without error and holds no valid record it returns the empty index
\* {}, which is not a failure.
C14_MissingVersusEmpty ==
    [][ /\ (pc = "loading" /\ ~file.exists) =>
              /\ loader = "module" => pc' = "load_failed"
              /\ loader = "script" => pc' = "load_raised"
              /\ pc' # "loaded"
        /\ (/\ pc = "loading" /\ pc' # "loading"
            /\ file.exists /\ NoValidRecord
            /\ caught' = "none") =>
              /\ pc' = "loaded"
              /\ captaincy_data' = <<>>
      ]_vars

\* load_place_captaincy_data has returned None for a file that does not exist
C14_Witness ==
    /\ ~file.exists
    /\ loader = "module"
    /\ pc = "load_failed"

\* C15: a gazetteer that exists but cannot be read (open or a read raises
\* an I/O error) is reported by each of the two loaders as a failure, which
\* the caller can tell from the empty index of a readable file.
C15_UnreadableIsFailure ==
    caught = "IOError" => pc \in {"load_failed", "load_raised"}

\* C16: when compiling the pattern or running the matcher fails, for a text
\* and a gazetteer that are not empty, the search does not raise: it
\* returns found_places_details = [], no top_captaincy and
\* all_captaincy_scores with every captaincy of the gazetteer at 0, and
\* nothing of what was counted before the failure.
C16_MatcherFailure ==
    (pc = "done" /\ caught = "re.error") =>
        /\ text # <<>> /\ captaincy_data # <<>>
        /\ result.returned
        /\ Details = <<>>
        /\ result.top_captaincy = NoTop
        /\ DOMAIN Scores = Captaincies(captaincy_data)
        /\ \A c \in DOMAIN Scores : Scores[c] = 0

\* the matcher failed after it had counted a place
C16_Witness ==
    /\ pc = "done"
    /\ caught = "re.error"
    /\ found_places_counts # <<>>

\* the trimmed text before the first comma of a line
BeforeFirstComma(raw) ==
    Strip(SubSeq(Strip(raw), 1, FirstComma(Strip(raw)) - 1))

\* the trimmed remainder of a line after its first comma, later commas included
AfterFirstComma(raw) ==
    Strip(SubSeq(Strip(raw), FirstComma(Strip(raw)) + 1, Len(Strip(raw))))

\* a line with two commas or more that is not a comment and has text on
\* both sides of its first comma
IsManyCommaRecord(raw) ==
    /\ CommaCount(raw) >= 2
    /\ Head(Strip(raw)) # "#"
    /\ BeforeFirstComma(raw) # <<>>
    /\ AfterFirstComma(raw) # <<>>

\* C17: the loader splits a record at its first comma only: reading a line
\* with two commas or more binds the trimmed text before the first comma as
\* the place, and a place not bound before goes under the captaincy that is
\* the trimmed remainder of the line, later commas included.
C17_SplitAtFirstComma ==
    [][ (/\ pc = "loading"
         /\ line_num' = line_num + 1
         /\ IsManyCommaRecord(file.lines[line_num + 1])) =>
           LET raw == file.lines[line_num + 1]
           IN  /\ BeforeFirstComma(raw) \in assigned_places'
               /\ BeforeFirstComma(raw) \notin assigned_places =>
                      <<AfterFirstComma(raw), BeforeFirstComma(raw)>> \in Bindings'
      ]_vars

\* a place is bound to a captaincy whose name holds a comma
C17_Witness ==
    /\ pc = "loading"
    /\ \E b \in Bindings : CommaCount(b[1]) > 0

\* a blank line, or a line whose first character after trimming is '#'
IsBlankOrComment(raw) == Strip(raw) = <<>> \/ Head(Strip(raw)) = "#"

\* the file without its blank lines and its comments
WithoutIgnored(lines) == SelectSeq(lines, LAMBDA l : ~IsBlankOrComment(l))

\* C18: blank lines and comment lines are ignored: the index the loader has
\* built from the lines it has read equals the index loaded from the same
\* lines with the blank lines and the comments removed, wherever they stand.
C18_BlankAndCommentIgnored ==
    pc = "loading" =>
        captaincy_data = LoadAll(WithoutIgnored(SubSeq(file.lines, 1, line_num)))

\* a file was read to its end whose comment or blank line precedes a record
C18_Witness ==
    /\ pc = "loading"
    /\ line_num = 2
    /\ IsBlankOrComment(file.lines[1])
    /\ captaincy_data # <<>>

\* what a call with text t that caught exception c returns when it runs alone
ExpectedResult(t, c) ==
    IF c = "re.error" THEN ZeroResult(captaincy_data)
    ELSE SearchAlone(captaincy_data, t)

\* two calls that have returned for the same text, neither with a failed
\* matcher, hold equal results
SameTextSameResult ==
    (/\ pc = "done" /\ pc2 = "done"
     /\ text = text2
     /\ caught = "none" /\ caught2 = "none") => result = result2

\* C19: a scan is a function of the index and the text alone: no step of a
\* scan changes captaincy_data, two calls with the same index and the same
\* text return equal results whatever scans ran in between, and a result
\* that was returned is not altered by the scans that follow.
C19_ScanIsPure ==
    [][ /\ pc # "loading" => captaincy_data' = captaincy_data
        /\ SameTextSameResult'
        /\ (pc = "done" /\ pc' = "done") => result' = result
        /\ (pc2 = "done" /\ pc2' = "done" /\ calls2' = calls2) => result2' = result2
      ]_vars

\* the second caller has scanned something else and then the text of the
\* first caller, and the two hold the same places
C19_Witness ==
    /\ pc = "done" /\ pc2 = "done"
    /\ calls2 = 2
    /\ text = text2
    /\ Details # <<>>
    /\ found_places_counts2 # <<>>
    /\ result = result2

\* C20: when scans run concurrently against one shared index, then under
\* every interleaving of their steps each scan returns the result it
\* returns when it runs alone.
C20_ConcurrentScans ==
    /\ pc = "done" => result = ExpectedResult(text, caught)
    /\ pc2 = "done" => result2 = ExpectedResult(text2, caught2)

\* the two scans are under way at the same time and each has counted a place
C20_Witness ==
    /\ pc = "scanning" /\ pc2 = "scanning"
    /\ found_places_counts # <<>>
    /\ found_places_counts2 # <<>>

----------------------------------------------------------------------------
(* C21..C30 *)

\* C21: when the gazetteer file is missing, main() prints one JSON document
\* with status "Erro" and no results and ends with exit code 1, and it has
\* neither read the input document nor scanned anything; until then it has
\* printed nothing, and it ends in no other way.
C21_MissingGazetteerFails ==
    (main_pc # "off" /\ ~file.exists) =>
        /\ ~file_text.read
        /\ ~result.returned
        /\ pc \in {"loading", "load_failed"}
        /\ main_pc \in {"load", "exited"}
        /\ main_pc = "load" => emitted = <<>> /\ exit_code = "running"
        /\ main_pc = "exited" =>
               /\ emitted = <<Document("Erro", Null)>>
               /\ exit_code = "exit 1"

\* main() has ended on a missing gazetteer
C21_Witness ==
    /\ ~file.exists
    /\ main_pc = "exited"
    /\ exit_code = "exit 1"
    /\ Len(emitted) = 1

\* the call of extract_potential_names and the names it returned
NamesArgs == names_call.value

ReturnedNames == names_result.value

\* the word as the function looks it up: without the punctuation around it
CleanedWord(word) == StripChars(word, NameStripChars(NamesArgs.impl))

IsFirstName(word) == Capitalize(CleanedWord(word)) \in NamesArgs.cfg.first_names

IsSurname(word) == Capitalize(CleanedWord(word)) \in NamesArgs.cfg.second_names

IsPreposition(word) == Lower(CleanedWord(word)) \in NamesArgs.cfg.prepositions

\* C22: every name extract_potential_names returns starts with a word of
\* first_names and does not end with a preposition; a surname alone is
\* never returned.
C22_NamesWellFormed ==
    names_result.returned =>
        \A i \in 1..Len(ReturnedNames) :
            LET parts == SplitOnSpace(ReturnedNames[i])
            IN  /\ parts[1] \in NamesArgs.cfg.first_names
                /\ ~IsPreposition(parts[Len(parts)])
                /\ ReturnedNames[i] \notin NamesArgs.cfg.second_names

\* a name of three words was returned whose second word is a preposition,
\* from a text that goes on with a word that is no part of a name
C22_Witness ==
    /\ names_result.returned
    /\ \E i \in 1..Len(ReturnedNames) :
           /\ Len(SplitOnSpace(ReturnedNames[i])) = 3
           /\ IsPreposition(SplitOnSpace(ReturnedNames[i])[2])
    /\ Len(NormalizedWords(NamesArgs.text)) = 4

\* C23: a first name that stands alone in the text, followed by a word
\* that is neither a first name, a surname nor a preposition, is returned
\* as a name of one word.
C23_LoneFirstNameReturned ==
    names_result.returned =>
        LET words == NormalizedWords(NamesArgs.text)
        IN  (/\ Len(words) >= 2
             /\ IsFirstName(words[1])
             /\ CleanedWord(words[2]) # <<>>
             /\ ~IsFirstName(words[2])
             /\ ~IsSurname(words[2])
             /\ ~IsPreposition(words[2]))
            => \E i \in 1..Len(ReturnedNames) :
                   ReturnedNames[i] = Capitalize(CleanedWord(words[1]))

ThemesArgs == themes_call.value
ThemesValue == themes_result.value

\* the words of the text that are the keyword, whatever their letter case
\* and whatever '.' or ',' is attached to them
Occurrences(t, keyword) ==
    LET words == SplitWhitespace(t)
    IN  Cardinality({i \in 1..Len(words) :
                        Lower(StripChars(words[i], {".", ","})) = Strip(Lower(keyword))})

RECURSIVE SumOccurrences(_, _)
SumOccurrences(t, keywords) ==
    IF keywords = <<>> THEN 0
    ELSE Occurrences(t, Head(keywords)) + SumOccurrences(t, Tail(keywords))

\* C24: analyze_text_themes counts every word of the text that is a keyword,
\* irrespective of letter case and of a '.' or ',' attached to the word;
\* theme_counts of a theme is the sum of the counts of its keywords.
C24_KeywordsCounted ==
    (themes_result.returned /\ ThemesArgs.text # <<>>) =>
        \A i \in 1..Len(ThemesArgs.theme_groups) :
            LET group == ThemesArgs.theme_groups[i]
            IN  ThemesValue.theme_counts[group.theme] =
                    SumOccurrences(ThemesArgs.text, group.keywords)

\* the sum of the values of all_captaincy_scores
RECURSIVE SumOfScores(_)
SumOfScores(scores) ==
    IF DOMAIN scores = {} THEN 0
    ELSE LET c == CHOOSE k \in DOMAIN scores : TRUE
         IN  scores[c] + SumOfScores([k \in DOMAIN scores \ {c} |-> scores[k]])

\* the sum of the counts of found_places_details
RECURSIVE SumOfDetails(_)
SumOfDetails(details) ==
    IF details = <<>> THEN 0
    ELSE Head(details)[2] + SumOfDetails(Tail(details))

\* C25: score conservation.  In every result of search_colonial_places the
\* sum of the values of all_captaincy_scores equals the sum of the counts of
\* found_places_details: no match is dropped, none is credited twice.
C25_ScoreConservation ==
    pc = "done" => SumOfScores(Scores) = SumOfDetails(Details)

\* three matches were counted, for places of two captaincies
C25_Witness ==
    /\ pc = "done"
    /\ SumOfDetails(Details) = 3
    /\ Cardinality({c \in DOMAIN Scores : Scores[c] > 0}) = 2

\* place p occurs at offset k of the text with no word character right
\* before it and none right after it
StandaloneAt(k, p) ==
    /\ LiteralAt(text, k, p)
    /\ ~IsWordAt(text, k)
    /\ ~IsWordAt(text, k + Len(p) + 1)

\* a standalone occurrence of p at offset k that no longer gazetteer place
\* covers there and that no match made so far overlaps
FreeOccurrence(k, p) ==
    /\ p \in GazetteerPlaces
    /\ k \in pos..Len(text)
    /\ StandaloneAt(k, p)
    /\ \A q \in GazetteerPlaces :
           (StandaloneAt(k, q) \/ ValidMatchAt(k, q)) => Len(q) <= Len(p)

\* C26: every occurrence of a gazetteer place whose neighbours on both
\* sides are non-word characters or the ends of the text, which no longer
\* place covers at that position and which overlaps no earlier match, adds
\* one to the count of the place, also when the place itself begins or ends
\* with a non-word character: a step of a scan that has such an occurrence
\* ahead takes a match that starts no later than it, and counts the place
\* when the match starts there.
C26_StandaloneCounted ==
    [][(pc = "scanning" /\ caught' = "none") =>
          \A p \in GazetteerPlaces : \A k \in 0..Len(text) :
              FreeOccurrence(k, p) =>
                  /\ match_start >= 0
                  /\ match_start <= k
                  /\ match_start = k =>
                         CountOf(found_places_counts', Canonical(p)) =
                             CountOf(found_places_counts, Canonical(p)) + 1
       ]_vars

\* the scan in progress has reached offset k: nothing matches between the
\* resume offset and k
ScanIsAt(k) ==
    /\ k \in pos..Len(text)
    /\ \A j \in pos..(k - 1) : \A q \in GazetteerPlaces : ~ValidMatchAt(j, q)

\* at offset k the text holds L followed by a word character, and the
\* prefix S of that occurrence stands between two word boundaries; no third
\* place longer than S matches there
FallbackCase(k, S, L) ==
    /\ IsProperPrefix(S, L)
    /\ LiteralAt(text, k, L)
    /\ IsWordAt(text, k + Len(L) + 1)
    /\ ValidMatchAt(k, S)
    /\ \A M \in GazetteerPlaces \ {L} : ValidMatchAt(k, M) => Len(M) <= Len(S)

\* C27: fallback to the shorter candidate.  For gazetteer places S and L
\* with S a proper prefix of L: when the scan is at an occurrence of L that
\* is immediately followed by a word character, and the S prefix of that
\* occurrence is word-bounded, the step adds one to the count of S and
\* leaves the count of L alone.
C27_FallbackToShorter ==
    [][ScanStep =>
          \A S, L \in GazetteerPlaces : \A k \in 0..Len(text) :
              (ScanIsAt(k) /\ FallbackCase(k, S, L)) =>
                  /\ CountOf(found_places_counts', Canonical(S)) =
                         CountOf(found_places_counts, Canonical(S)) + 1
                  /\ CountOf(found_places_counts', Canonical(L)) =
                         CountOf(found_places_counts, Canonical(L))
       ]_vars

\* the number of characters of the text the counted matches are made of
RECURSIVE MatchedLength(_)
MatchedLength(counts) ==
    IF DOMAIN counts = {} THEN 0
    ELSE LET p == CHOOSE q \in DOMAIN counts : TRUE
         IN  counts[p] * Len(p)
             + MatchedLength([q \in DOMAIN counts \ {p} |-> counts[q]])

\* the sum of the counts
RECURSIVE TotalCount(_)
TotalCount(counts) ==
    IF DOMAIN counts = {} THEN 0
    ELSE LET p == CHOOSE q \in DOMAIN counts : TRUE
         IN  counts[p] + TotalCount([q \in DOMAIN counts \ {p} |-> counts[q]])

\* C28: matches are taken left to right and never overlap.  Every match
\* starts at or after the end of the one before and the scan resumes at its
\* end, so each character of the text belongs to at most one counted match:
\* the characters of the counted matches all lie before the resume offset,
\* a place that occurs inside the match, starting after it does, is not
\* counted by the step, and the counts add up to one per match.
C28_NoOverlap ==
    [][ScanStep =>
          /\ pos <= match_start
          /\ match_start < match_end
          /\ pos' = match_end
          /\ MatchedLength(found_places_counts') <= pos'
          /\ TotalCount(found_places_counts') = TotalCount(found_places_counts) + 1
          /\ \A q \in GazetteerPlaces :
                 (/\ \E j \in (match_start + 1)..(match_end - 1) : ValidMatchAt(j, q)
                  /\ Canonical(q) # Canonical(matched_text))
                 => CountOf(found_places_counts', Canonical(q)) =
                        CountOf(found_places_counts, Canonical(q))
       ]_vars

\* a finished scan of a text where a place occurs inside the occurrence of
\* another, starting after it: the one that starts first was counted, the
\* other was not
C28_Witness ==
    /\ pc = "done"
    /\ \E p, q \in GazetteerPlaces : \E k \in 0..Len(text) :
           /\ ValidMatchAt(k, p)
           /\ \E j \in (k + 1)..(k + Len(p) - 1) : ValidMatchAt(j, q)
           /\ CountOf(found_places_counts, Canonical(p)) = 1
           /\ CountOf(found_places_counts, Canonical(q)) = 0

\* C29: the standalone script and the module are equivalent on the engine.
\* A file that is read to its end gives the same index with
\* load_captaincy_data as with load_place_captaincy_data, and every search
\* of the module returns what search_colonial_places of the script returns
\* for the same text and the same captaincy_data.
C29_ScriptEqualsModule ==
    [][/\ (pc = "loading" /\ pc' = "loaded" /\ caught' = "none") =>
              /\ captaincy_data' = ScriptLoad(file.lines)
              /\ LoadAll(file.lines) = ScriptLoad(file.lines)
       /\ (pc' = "done" /\ pc # "done") =>
              result' = IF caught' = "none"
                        THEN ScriptSearch(captaincy_data', text')
                        ELSE ScriptFailResult(captaincy_data')
      ]_vars

\* a search has returned two counted places and a tie between their two
\* captaincies, as the script returns them
C29_Witness ==
    /\ pc = "done"
    /\ result.top_captaincy.kind = "list"
    /\ Len(result.found_places_details) = 2
    /\ result = ScriptSearch(captaincy_data, text)

\* C30: each run of main() emits exactly one JSON document before it ends,
\* on every path: a run that has ended has emitted one document.
C30_OneDocumentPerRun ==
    main_pc = "exited" => Len(emitted) = 1

====
